---- MODULE Spec2Model ----
(***************************************************************************)
(* Model of the item store of the dashboard (pkg/itemstore/itemstore.go):  *)
(* Item.Validate, New, ItemStore.Filter and ItemStore.GetUniqueValues,     *)
(* together with a caller that holds the slice it passed to New and the    *)
(* slice a call returned.  Go slices are modelled as headers (arr, len,    *)
(* cap) into a heap of backing arrays, so that sharing of storage between  *)
(* the caller and the store is part of the state.  Go strings are          *)
(* sequences of one-character strings, compared by byte value.             *)
(***************************************************************************)
EXTENDS Integers, Sequences, FiniteSets, TLC

VARIABLES heap, input, store, err, got, call

vars == <<heap, input, store, err, got, call>>

(***************************************************************************)
(* Bounds of the exploration.                                              *)
(***************************************************************************)
MaxLen == 3        \* longest seed list handed to New in Spec
MaxRawLen == 2     \* longest raw list handed to New in SpecNew
MaxID == 2         \* largest id of a raw record in SpecNew
MaxGotLen == 3     \* the caller stops appending to a returned slice here
NumArrays == 4     \* backing arrays that can be live at once

ArrIds == 1..NumArrays

(***************************************************************************)
(* Strings.                                                                *)
(***************************************************************************)
Code(c) ==
    CASE c = " " -> 32  [] c = "A" -> 65  [] c = "B" -> 66
      [] c = "a" -> 97  [] c = "b" -> 98  [] c = "c" -> 99
      [] c = "e" -> 101 [] c = "g" -> 103 [] c = "i" -> 105
      [] c = "l" -> 108 [] c = "n" -> 110 [] c = "p" -> 112
      [] c = "q" -> 113 [] c = "r" -> 114 [] c = "s" -> 115
      [] c = "u" -> 117 [] c = "d" -> 100

IsSpace(c) == c = " "

RECURSIVE StrLess(_, _)
StrLess(s, t) ==
    IF s = <<>> THEN t # <<>>
    ELSE IF t = <<>> THEN FALSE
    ELSE IF Head(s) = Head(t) THEN StrLess(Tail(s), Tail(t))
    ELSE Code(Head(s)) < Code(Head(t))

RECURSIVE TrimLeft(_)
TrimLeft(s) ==
    IF s # <<>> /\ IsSpace(Head(s)) THEN TrimLeft(Tail(s)) ELSE s

RECURSIVE TrimRight(_)
TrimRight(s) ==
    IF s # <<>> /\ IsSpace(s[Len(s)]) THEN TrimRight(SubSeq(s, 1, Len(s) - 1)) ELSE s

TrimSpace(s) == TrimRight(TrimLeft(s))

Red == <<"r", "e", "d">>
Blue == <<"b", "l", "u", "e">>
Green == <<"g", "r", "e", "e", "n">>
Circle == <<"c", "i", "r", "c", "l", "e">>
Square == <<"s", "q", "u", "a", "r", "e">>
CatA == <<"A">>
CatB == <<"B">>

(***************************************************************************)
(* Items, slices and the heap.                                             *)
(***************************************************************************)
Item(id, color, shape, category) ==
    [ID |-> id, Color |-> color, Shape |-> shape, Category |-> category]

ZeroItem == Item(0, <<>>, <<>>, <<>>)

NilSlice == [arr |-> 0, len |-> 0, cap |-> 0]

SliceItems(h, sl) == IF sl.arr = 0 THEN <<>> ELSE SubSeq(h[sl.arr], 1, sl.len)

NilStore == [nil |-> TRUE, items |-> NilSlice]

ItemStore(items) == [nil |-> FALSE, items |-> items]

NoValue == [kind |-> "none", slice |-> NilSlice, strings |-> <<>>]

ItemsValue(sl) == [kind |-> "items", slice |-> sl, strings |-> <<>>]

StringsValue(ss) == [kind |-> "strings", slice |-> NilSlice, strings |-> ss]

\* arrays reachable from the caller's seed list, the store and the held result
Live(in, st, g) == ({in.arr, st.items.arr, g.slice.arr}) \ {0}

\* unreachable arrays are collected
Collect(h, live) == [a \in ArrIds |-> IF a \in live THEN h[a] ELSE <<>>]

(***************************************************************************)
(* Errors.                                                                 *)
(***************************************************************************)
NoIndex == 0 - 1

NoError == [kind |-> "nil", index |-> NoIndex, cause |-> "", id |-> 0]

ErrInvalidID(id) ==
    [kind |-> "invalid item ID", index |-> NoIndex, cause |-> "", id |-> id]

ErrEmptyFields(id) ==
    [kind |-> "has empty fields", index |-> NoIndex, cause |-> "", id |-> id]

ErrInvalidItemAt(k, e) ==
    [kind |-> "invalid item at index", index |-> k, cause |-> e.kind, id |-> e.id]

(***************************************************************************)
(* Item.Validate: the receiver is a copy, i is its value on return.        *)
(***************************************************************************)
\* variant: the fields are compared without trimming
ValidateNoTrim(i) ==
    IF i.ID <= 0
    THEN [err |-> ErrInvalidID(i.ID), i |-> i]
    ELSE IF i.Color = <<>> \/ i.Shape = <<>> \/ i.Category = <<>>
         THEN [err |-> ErrEmptyFields(i.ID), i |-> i]
         ELSE [err |-> NoError, i |-> i]

Validate(i) ==
    IF i.ID <= 0
    THEN [err |-> ErrInvalidID(i.ID), i |-> i]
    ELSE LET t == [i EXCEPT !.Color = TrimSpace(@),
                            !.Shape = TrimSpace(@),
                            !.Category = TrimSpace(@)]
         IN  IF t.Color = <<>> \/ t.Shape = <<>> \/ t.Category = <<>>
             THEN [err |-> ErrEmptyFields(t.ID), i |-> t]
             ELSE [err |-> NoError, i |-> t]

(***************************************************************************)
(* New: validates in index order, keeps the slice it was given.            *)
(***************************************************************************)
RECURSIVE NewLoop(_, _)
NewLoop(its, k) ==
    IF k >= Len(its) THEN NoError
    ELSE LET e == Validate(its[k + 1]).err
         IN  IF e.kind # "nil" THEN ErrInvalidItemAt(k, e) ELSE NewLoop(its, k + 1)

\* variant: the records are validated from the last to the first
RECURSIVE NewLastInvalid(_, _)
NewLastInvalid(its, k) ==
    IF k < 0 THEN NoError
    ELSE LET e == Validate(its[k + 1]).err
         IN  IF e.kind # "nil" THEN ErrInvalidItemAt(k, e) ELSE NewLastInvalid(its, k - 1)

NewReportsLast(h, items) ==
    LET e == NewLastInvalid(SliceItems(h, items), items.len - 1)
    IN  IF e.kind # "nil"
        THEN [store |-> NilStore, err |-> e]
        ELSE [store |-> ItemStore(items), err |-> NoError]

New(h, items) ==
    LET e == NewLoop(SliceItems(h, items), 0)
    IN  IF e.kind # "nil"
        THEN [store |-> NilStore, err |-> e]
        ELSE [store |-> ItemStore(items), err |-> NoError]

(***************************************************************************)
(* The raw records of the construction specification.                      *)
(***************************************************************************)
RawColors == {<<>>, Red, <<" ">> \o Red}
RawShapes == {<<" ">>, Circle}
RawCategories == {<<>>, CatA}

RawItems ==
    {Item(id, c, s, k) : id \in 0..MaxID, c \in RawColors,
                         s \in RawShapes, k \in RawCategories}

SeqsUpTo(S, n) == UNION {[1..m -> S] : m \in 0..n}

SliceLiteral(its) == [arr |-> 1, len |-> Len(its), cap |-> Len(its)]

InitWith(Seeds) ==
    /\ \E its \in Seeds :
          /\ input = SliceLiteral(its)
          /\ heap = [a \in ArrIds |-> IF a = 1 THEN its ELSE <<>>]
    /\ store = NilStore
    /\ err = NoError
    /\ got = NoValue
    /\ call = [op |-> "init"]

\* input[k].Validate(), k counted from 0
ValidateCall ==
    \E k \in 0..(input.len - 1) :
        LET r == Validate(SliceItems(heap, input)[k + 1])
        IN  /\ err' = r.err
            /\ call' = [op |-> "Validate", k |-> k]
            /\ UNCHANGED <<heap, input, store, got>>

\* store, err := New(input)
NewCall ==
    /\ LET r == New(heap, input)
       IN  /\ store' = r.store
           /\ err' = r.err
           /\ heap' = Collect(heap, Live(input, r.store, got))
    /\ call' = [op |-> "New"]
    /\ UNCHANGED <<input, got>>

InitNew == InitWith(SeqsUpTo(RawItems, MaxRawLen))

NextNew == ValidateCall \/ NewCall

SpecNew == InitNew /\ [][NextNew]_vars

(***************************************************************************)
(* Maps and the built-in append.                                           *)
(***************************************************************************)
NilMap == [nil |-> TRUE, m |-> <<>>]

MakeMap(f) == [nil |-> FALSE, m |-> f]

MapLen(filters) == Cardinality(DOMAIN filters.m)

\* the orders in which a range loop may visit the keys of a map
RangeOrders(filters) ==
    LET D == DOMAIN filters.m
    IN  {o \in [1..Cardinality(D) -> D] : \A i, j \in DOMAIN o : o[i] = o[j] => i = j}

Alloc(live) == CHOOSE a \in ArrIds \ live : \A b \in ArrIds \ live : a <= b

Zeros(n) == [k \in 1..n |-> ZeroItem]

\* append(sl, x): in place while capacity remains, else a doubled copy
append(h, live, sl, x) ==
    IF sl.len < sl.cap
    THEN [heap |-> [h EXCEPT ![sl.arr][sl.len + 1] = x],
          slice |-> [sl EXCEPT !.len = @ + 1]]
    ELSE LET a == Alloc(live \cup ({sl.arr} \ {0}))
             newcap == IF sl.cap = 0 THEN 1 ELSE 2 * sl.cap
         IN  [heap |-> [h EXCEPT ![a] = SliceItems(h, sl) \o <<x>> \o Zeros(newcap - sl.len - 1)],
              slice |-> [arr |-> a, len |-> sl.len + 1, cap |-> newcap]]

(***************************************************************************)
(* ItemStore.Filter.                                                       *)
(***************************************************************************)
\* the range over filters for one item: FALSE when it ends in `continue ItemLoop`
\* variant: the range stops after the first entry it visits
MatchesAllFirstEntry(item, filters, order) ==
    IF order = <<>> THEN TRUE
    ELSE LET key == Head(order)
             value == filters.m[key]
         IN  CASE key = "color" -> item.Color = value
               [] key = "shape" -> item.Shape = value
               [] key = "category" -> item.Category = value
               [] OTHER -> TRUE

\* variant: an entry with an unrecognized key rejects the item
RECURSIVE MatchesAllStrict(_, _, _)
MatchesAllStrict(item, filters, order) ==
    IF order = <<>> THEN TRUE
    ELSE LET key == Head(order)
             value == filters.m[key]
         IN  CASE key = "color" ->
                    IF item.Color # value THEN FALSE
                    ELSE MatchesAllStrict(item, filters, Tail(order))
               [] key = "shape" ->
                    IF item.Shape # value THEN FALSE
                    ELSE MatchesAllStrict(item, filters, Tail(order))
               [] key = "category" ->
                    IF item.Category # value THEN FALSE
                    ELSE MatchesAllStrict(item, filters, Tail(order))
               [] OTHER -> FALSE

RECURSIVE MatchesAll(_, _, _)
MatchesAll(item, filters, order) ==
    IF order = <<>> THEN TRUE
    ELSE LET key == Head(order)
             value == filters.m[key]
         IN  CASE key = "color" ->
                    IF item.Color # value THEN FALSE
                    ELSE MatchesAll(item, filters, Tail(order))
               [] key = "shape" ->
                    IF item.Shape # value THEN FALSE
                    ELSE MatchesAll(item, filters, Tail(order))
               [] key = "category" ->
                    IF item.Category # value THEN FALSE
                    ELSE MatchesAll(item, filters, Tail(order))
               [] OTHER -> MatchesAll(item, filters, Tail(order))

RECURSIVE FilterLoop(_, _, _, _, _, _)
FilterLoop(h, live, its, filters, order, result) ==
    IF its = <<>> THEN [heap |-> h, slice |-> result]
    ELSE IF MatchesAll(Head(its), filters, order)
         THEN LET r == append(h, live, result, Head(its))
              IN  FilterLoop(r.heap, live, Tail(its), filters, order, r.slice)
         ELSE FilterLoop(h, live, Tail(its), filters, order, result)

\* variant: the empty filter set returns the slice of the store itself
FilterAliased(h, live, s, filters, order) ==
    IF MapLen(filters) = 0
    THEN [heap |-> h, slice |-> s.items]
    ELSE FilterLoop(h, live, SliceItems(h, s.items), filters, order, NilSlice)

\* variant: the empty filter set returns the made slice without the copy
FilterNoCopy(h, live, s, filters, order) ==
    IF MapLen(filters) = 0
    THEN LET a == Alloc(live)
         IN  [heap |-> [h EXCEPT ![a] = Zeros(s.items.len)],
              slice |-> [arr |-> a, len |-> s.items.len, cap |-> s.items.len]]
    ELSE FilterLoop(h, live, SliceItems(h, s.items), filters, order, NilSlice)

Filter(h, live, s, filters, order) ==
    IF MapLen(filters) = 0
    THEN LET a == Alloc(live)
         IN  [heap |-> [h EXCEPT ![a] = SliceItems(h, s.items)],
              slice |-> [arr |-> a, len |-> s.items.len, cap |-> s.items.len]]
    ELSE FilterLoop(h, live, SliceItems(h, s.items), filters, order, NilSlice)

(***************************************************************************)
(* ItemStore.GetUniqueValues.                                              *)
(***************************************************************************)
RECURSIVE Insert(_, _)
Insert(x, sorted) ==
    IF sorted = <<>> THEN <<x>>
    ELSE IF StrLess(x, Head(sorted)) THEN <<x>> \o sorted
    ELSE <<Head(sorted)>> \o Insert(x, Tail(sorted))

RECURSIVE SortStrings(_)
SortStrings(ss) ==
    IF ss = <<>> THEN <<>> ELSE Insert(Head(ss), SortStrings(Tail(ss)))

RECURSIVE UniqueLoop(_, _, _, _)
UniqueLoop(its, property, values, result) ==
    IF its = <<>> THEN result
    ELSE LET item == Head(its)
         IN  IF property \notin {"color", "shape", "category"}
             THEN UniqueLoop(Tail(its), property, values, result)
             ELSE LET value == CASE property = "color" -> item.Color
                                 [] property = "shape" -> item.Shape
                                 [] property = "category" -> item.Category
                  IN  IF value \notin values
                      THEN UniqueLoop(Tail(its), property, values \cup {value},
                                      result \o <<value>>)
                      ELSE UniqueLoop(Tail(its), property, values, result)

\* variant: the values are returned in the order they were met
GetUniqueValuesUnsorted(h, s, property) ==
    UniqueLoop(SliceItems(h, s.items), property, {}, <<>>)

GetUniqueValues(h, s, property) ==
    SortStrings(UniqueLoop(SliceItems(h, s.items), property, {}, <<>>))

(***************************************************************************)
(* The store specification: a caller seeds a store, queries it, and        *)
(* writes to the slices it holds.                                          *)
(***************************************************************************)
SeedItems ==
    {Item(1, Red, Circle, CatA), Item(2, Blue, Square, CatA),
     Item(3, Red, Square, CatB), Item(4, Green, Circle, CatB)}

WrittenItems == {Item(2, Blue, Square, CatA)}

FilterKeys == {"color", "shape", "category", "size"}

FilterValues(key) ==
    CASE key = "color" -> {Red}
      [] key = "shape" -> {Square}
      [] key = "category" -> {CatB}
      [] OTHER -> {Red}

MaxFilterKeys == 2   \* most entries of a filter set handed to Filter

FilterMaps ==
    {NilMap} \cup
    {MakeMap(f) : f \in UNION {{g \in [D -> UNION {FilterValues(k) : k \in D}] :
                                      \A k \in D : g[k] \in FilterValues(k)} :
                               D \in {E \in SUBSET FilterKeys : Cardinality(E) <= MaxFilterKeys}}}

Properties == {"color", "shape", "category", "invalid"}

\* got := store.Filter(filters)
FilterCall ==
    /\ ~store.nil
    /\ \E filters \in FilterMaps : \E order \in RangeOrders(filters) :
          LET live == Live(input, store, NoValue)
              r == Filter(Collect(heap, live), live, store, filters, order)
          IN  /\ got' = ItemsValue(r.slice)
              /\ heap' = Collect(r.heap, Live(input, store, ItemsValue(r.slice)))
              /\ call' = [op |-> "Filter", filters |-> filters]
    /\ UNCHANGED <<input, store, err>>

\* got := store.GetUniqueValues(property)
GetUniqueValuesCall ==
    /\ ~store.nil
    /\ \E property \in Properties :
          /\ got' = StringsValue(GetUniqueValues(heap, store, property))
          /\ heap' = Collect(heap, Live(input, store, NoValue))
          /\ call' = [op |-> "GetUniqueValues", property |-> property]
    /\ UNCHANGED <<input, store, err>>

\* the caller lets go of the result it holds and writes input[k] = x, k counted from 0
CallerOverwriteInput ==
    /\ \E k \in 0..(input.len - 1) : \E x \in WrittenItems :
          /\ heap[input.arr][k + 1] # x
          /\ heap' = Collect([heap EXCEPT ![input.arr][k + 1] = x],
                             Live(input, store, NoValue))
    /\ got' = NoValue
    /\ call' = [op |-> "OverwriteInput"]
    /\ UNCHANGED <<input, store, err>>

\* got[k] = x, k counted from 0
CallerOverwriteGot ==
    /\ got.kind = "items"
    /\ \E k \in 0..(got.slice.len - 1) : \E x \in WrittenItems :
          /\ heap[got.slice.arr][k + 1] # x
          /\ heap' = [heap EXCEPT ![got.slice.arr][k + 1] = x]
    /\ call' = [op |-> "OverwriteGot"]
    /\ UNCHANGED <<input, store, err, got>>

\* got = append(got, x)
CallerAppendGot ==
    /\ got.kind = "items"
    /\ got.slice.len < MaxGotLen
    /\ \E x \in WrittenItems :
          LET r == append(heap, Live(input, store, got), got.slice, x)
          IN  /\ got' = ItemsValue(r.slice)
              /\ heap' = Collect(r.heap, Live(input, store, ItemsValue(r.slice)))
    /\ call' = [op |-> "AppendGot"]
    /\ UNCHANGED <<input, store, err>>

Init == InitWith(SeqsUpTo(SeedItems, MaxLen))

Next ==
    \/ NewCall
    \/ FilterCall
    \/ GetUniqueValuesCall
    \/ CallerOverwriteInput
    \/ CallerOverwriteGot
    \/ CallerAppendGot

Spec == Init /\ [][Next]_vars

(***************************************************************************)
(* Vocabulary of the properties.                                           *)
(***************************************************************************)
StoreItems == SliceItems(heap, store.items)

GotItems == SliceItems(heap, got.slice)

InputItems == SliceItems(heap, input)

KnownKeys == {"color", "shape", "category"}

Attr(item, key) ==
    CASE key = "color" -> item.Color
      [] key = "shape" -> item.Shape
      [] key = "category" -> item.Category

\* item equals F[k] on every recognized key k of F
MatchesEvery(item, F) ==
    \A k \in (DOMAIN F.m) \cap KnownKeys : Attr(item, k) = F.m[k]

\* the subsequence of its selected by the conjunction of the entries of F
Selected(its, F) ==
    LET Keep(item) == MatchesEvery(item, F) IN SelectSeq(its, Keep)

HasNonSpace(s) == \E n \in 1..Len(s) : ~IsSpace(s[n])

ValidRecord(i) ==
    /\ i.ID > 0
    /\ HasNonSpace(i.Color) /\ HasNonSpace(i.Shape) /\ HasNonSpace(i.Category)

InvalidIndexes(its) == {k \in 0..(Len(its) - 1) : ~ValidRecord(its[k + 1])}

Trimmed(s) == s # <<>> /\ ~IsSpace(s[1]) /\ ~IsSpace(s[Len(s)])

\* C1: Filter with a non-empty filter set over color, shape, category returns
\* exactly the records of the store that equal F[k] on every key k of F, in
\* store order: every returned record matches every entry, every record left
\* out fails at least one.
C1_FilterSelectsMatching ==
    (/\ call.op = "Filter"
     /\ MapLen(call.filters) > 0
     /\ DOMAIN call.filters.m \subseteq KnownKeys)
    => /\ GotItems = Selected(StoreItems, call.filters)
       /\ \A n \in 1..Len(GotItems) : MatchesEvery(GotItems[n], call.filters)
       /\ \A n \in 1..Len(StoreItems) :
             (\A j \in 1..Len(GotItems) : GotItems[j] # StoreItems[n])
             => ~MatchesEvery(StoreItems[n], call.filters)

\* a two-key filter that keeps one record of a three-record store and drops a
\* record that matches only one of the two entries
C1_Witness ==
    /\ call.op = "Filter"
    /\ DOMAIN call.filters.m = {"color", "shape"}
    /\ Len(StoreItems) = 3
    /\ Len(GotItems) = 1
    /\ \E n \in 1..3 : /\ StoreItems[n].Color = call.filters.m["color"]
                       /\ StoreItems[n].Shape # call.filters.m["shape"]

C3_NewFailsOnFirstInvalid ==
    call.op = "New"
    => LET bad == InvalidIndexes(InputItems)
       IN  /\ store.nil <=> bad # {}
           /\ err.kind = "nil" <=> bad = {}
           /\ bad = {} => store.items = input
           /\ bad # {} =>
                LET first == CHOOSE k \in bad : \A j \in bad : k <= j
                    it == InputItems[first + 1]
                IN  /\ err.kind = "invalid item at index"
                    /\ err.index = first
                    /\ err.id = it.ID
                    /\ err.cause = IF it.ID <= 0 THEN "invalid item ID"
                                   ELSE "has empty fields"

\* two invalid records, the one at index 0 with id 0
C3_Witness ==
    /\ call.op = "New"
    /\ Cardinality(InvalidIndexes(InputItems)) = 2
    /\ InputItems[1].ID = 0
    /\ InputItems[2].ID > 0
    /\ store.nil
    /\ err.index = 0
    /\ err.cause = "invalid item ID"

\* C4: Validate returns an error iff the id is not positive or one of color,
\* shape, category is empty after trimming whitespace, and leaves the item
\* it is called on as it was.
C4_ValidateIffInvalid ==
    [][call'.op = "Validate"
       => /\ (err'.kind # "nil") <=> ~ValidRecord(InputItems[call'.k + 1])
          /\ err'.kind # "nil" =>
               /\ err'.id = InputItems[call'.k + 1].ID
               /\ (err'.kind = "invalid item ID") <=> (InputItems[call'.k + 1].ID <= 0)
          /\ SliceItems(heap', input') = InputItems]_vars

\* a record with a positive id, rejected for a whitespace-only shape
C4_Witness ==
    /\ call.op = "Validate"
    /\ err.kind = "has empty fields"
    /\ InputItems[call.k + 1].Shape = <<" ">>
    /\ InputItems[call.k + 1].Color # <<>>
    /\ InputItems[call.k + 1].Category # <<>>

\* C5: after New(items) succeeds, overwriting an element of the caller's own
\* input sequence leaves the records of the store unchanged.
C5_StoreKeepsDefensiveCopy ==
    [][(call'.op = "OverwriteInput" /\ ~store.nil)
       => SliceItems(heap', store'.items) = StoreItems]_vars

\* the filter sets of the later Filter call of C6: empty, nil and single-entry
LaterFilters == {F \in FilterMaps : MapLen(F) <= 1}

\* C6: the sequence Filter returns never shares storage with the store:
\* overwriting it or appending to it leaves the records of the store unchanged.
C6_FilterResultIsFresh ==
    [][/\ (call'.op = "Filter" /\ got'.slice.arr # 0)
          => got'.slice.arr # store'.items.arr
       /\ (call'.op \in {"OverwriteGot", "AppendGot"})
          => /\ SliceItems(heap', store'.items) = StoreItems
             /\ \A F \in LaterFilters : \A o \in RangeOrders(F) :
                  LET live == Live(input, store, NoValue)
                      before == Filter(Collect(heap, live), live, store, F, o)
                      after == Filter(Collect(heap', live), live, store', F, o)
                  IN  SliceItems(after.heap, after.slice)
                        = SliceItems(before.heap, before.slice)]_vars

\* the caller has overwritten a record of the result of an empty filter
C6_WitnessOverwrite ==
    /\ call.op = "OverwriteGot"
    /\ got.slice.len = store.items.len
    /\ got.slice.len > 0
    /\ GotItems # StoreItems

\* C7: every record of a store that New returned has whitespace-trimmed,
\* non-empty color, shape and category.
C7_StoredRecordsTrimmed ==
    ~store.nil
    => \A n \in 1..Len(StoreItems) :
          /\ Trimmed(StoreItems[n].Color)
          /\ Trimmed(StoreItems[n].Shape)
          /\ Trimmed(StoreItems[n].Category)

\* C8: the ids of the records of a store that New returned are positive and
\* pairwise distinct.
C8_StoredIdsDistinct ==
    ~store.nil
    => /\ \A n \in 1..Len(StoreItems) : StoreItems[n].ID > 0
       /\ \A i, j \in 1..Len(StoreItems) :
             StoreItems[i].ID = StoreItems[j].ID => i = j

\* C9: Filter ignores entries whose key is not color, shape or category:
\* Filter(F plus {u: v}) returns what Filter(F) returns, and a filter set of
\* unrecognized keys only returns all records.
C9_UnknownKeysIgnored ==
    (call.op = "Filter" /\ ~(DOMAIN call.filters.m \subseteq KnownKeys))
    => LET D == (DOMAIN call.filters.m) \cap KnownKeys
           F == MakeMap([k \in D |-> call.filters.m[k]])
           live == Live(input, store, NoValue)
       IN  /\ \A o \in RangeOrders(F) :
                 LET r == Filter(Collect(heap, live), live, store, F, o)
                 IN  GotItems = SliceItems(r.heap, r.slice)
           /\ D = {} => GotItems = StoreItems

\* an unrecognized key next to a color entry that two of three records fail
C9_Witness ==
    /\ call.op = "Filter"
    /\ DOMAIN call.filters.m = {"color", "size"}
    /\ Len(StoreItems) = 3
    /\ Len(GotItems) = 1

\* C10: GetUniqueValues of color, shape or category is sorted ascending by
\* ordinal comparison, has no duplicates, and holds exactly the values the
\* attribute takes in the store; for any other key it is empty.
C10_UniqueValuesSortedDistinct ==
    call.op = "GetUniqueValues"
    => IF call.property \in KnownKeys
       THEN /\ \A i, j \in 1..Len(got.strings) :
                  i < j => StrLess(got.strings[i], got.strings[j])
            /\ {got.strings[n] : n \in 1..Len(got.strings)}
                 = {Attr(StoreItems[n], call.property) : n \in 1..Len(StoreItems)}
       ELSE got.strings = <<>>

\* two colors out of three records, met in the store in descending order
C10_Witness ==
    /\ call.op = "GetUniqueValues"
    /\ call.property = "color"
    /\ Len(StoreItems) = 3
    /\ Len(got.strings) = 2
    /\ StrLess(StoreItems[2].Color, StoreItems[1].Color)
    /\ StoreItems[3].Color = StoreItems[1].Color

(***************************************************************************)
(* The query evaluator of main.go: getPropertyGetter, groupItems,          *)
(* getUniqueValues and the items handler over the global items.  A bucket  *)
(* of groupItems is a slice grown by append from an empty map entry: it    *)
(* owns its array and is kept by its elements (own); the group of an       *)
(* unrecognized groupBy holds the slice it was given (ref).                *)
(***************************************************************************)
AllItems == <<"A", "l", "l", " ", "I", "t", "e", "m", "s">>

getPropertyGetter(property) ==
    CASE property = "color" -> [ok |-> TRUE, field |-> "Color"]
      [] property = "shape" -> [ok |-> TRUE, field |-> "Shape"]
      [] property = "category" -> [ok |-> TRUE, field |-> "Category"]
      [] OTHER -> [ok |-> FALSE, field |-> ""]

\* getter(i) for a getter that getPropertyGetter returned with ok
PropertyGetter(getter, i) ==
    CASE getter.field = "Color" -> i.Color
      [] getter.field = "Shape" -> i.Shape
      [] getter.field = "Category" -> i.Category

OwnSlice(its) == [ref |-> NilSlice, own |-> its]

RefSlice(sl) == [ref |-> sl, own |-> <<>>]

GroupedItems(name, property, items) ==
    [GroupName |-> name, Property |-> property, Items |-> items]

\* groupMap[value] = append(groupMap[value], item)
MapAppend(groupMap, value, item) ==
    [v \in (DOMAIN groupMap) \cup {value} |->
        IF v = value
        THEN (IF value \in DOMAIN groupMap THEN groupMap[value] ELSE <<>>) \o <<item>>
        ELSE groupMap[v]]

RECURSIVE GroupLoop(_, _, _)
GroupLoop(its, getter, groupMap) ==
    IF its = <<>> THEN groupMap
    ELSE GroupLoop(Tail(its), getter,
                   MapAppend(groupMap, PropertyGetter(getter, Head(its)), Head(its)))

\* the orders in which a range loop may visit the keys K of a map
KeyOrders(K) ==
    {o \in [1..Cardinality(K) -> K] : \A i, j \in DOMAIN o : o[i] = o[j] => i = j}

\* the keys of the groupMap that groupItems builds
GroupKeys(its, groupBy) ==
    LET getter == getPropertyGetter(groupBy)
    IN  IF getter.ok THEN {PropertyGetter(getter, its[n]) : n \in 1..Len(its)} ELSE {}

RECURSIVE ConvertLoop(_, _, _, _)
ConvertLoop(order, groupMap, groupBy, result) ==
    IF order = <<>> THEN result
    ELSE ConvertLoop(Tail(order), groupMap, groupBy,
                     result \o <<GroupedItems(Head(order), groupBy,
                                              OwnSlice(groupMap[Head(order)]))>>)

RECURSIVE InsertGroup(_, _)
InsertGroup(g, sorted) ==
    IF sorted = <<>> THEN <<g>>
    ELSE IF StrLess(g.GroupName, Head(sorted).GroupName) THEN <<g>> \o sorted
    ELSE <<Head(sorted)>> \o InsertGroup(g, Tail(sorted))

\* variant: the comparison of sort.Slice is reversed
RECURSIVE InsertGroupDescending(_, _)
InsertGroupDescending(g, sorted) ==
    IF sorted = <<>> THEN <<g>>
    ELSE IF StrLess(Head(sorted).GroupName, g.GroupName) THEN <<g>> \o sorted
    ELSE <<Head(sorted)>> \o InsertGroupDescending(g, Tail(sorted))

RECURSIVE SortGroupsDescending(_)
SortGroupsDescending(gs) ==
    IF gs = <<>> THEN <<>>
    ELSE InsertGroupDescending(Head(gs), SortGroupsDescending(Tail(gs)))

RECURSIVE SortGroups(_)
SortGroups(gs) ==
    IF gs = <<>> THEN <<>> ELSE InsertGroup(Head(gs), SortGroups(Tail(gs)))

\* variant: the groups are returned in the order the map was ranged over
groupItemsUnsorted(h, items, groupBy, order) ==
    LET getter == getPropertyGetter(groupBy)
    IN  IF ~getter.ok
        THEN [heap |-> h, groups |-> <<GroupedItems(AllItems, groupBy, RefSlice(items))>>]
        ELSE LET groupMap == GroupLoop(SliceItems(h, items), getter, <<>>)
             IN  [heap |-> h, groups |-> ConvertLoop(order, groupMap, groupBy, <<>>)]

\* variant: the single group of an unrecognized groupBy is named "All"
groupItemsAll(h, items, groupBy, order) ==
    LET getter == getPropertyGetter(groupBy)
    IN  IF ~getter.ok
        THEN [heap |-> h,
              groups |-> <<GroupedItems(<<"A", "l", "l">>, groupBy, RefSlice(items))>>]
        ELSE LET groupMap == GroupLoop(SliceItems(h, items), getter, <<>>)
             IN  [heap |-> h,
                  groups |-> SortGroups(ConvertLoop(order, groupMap, groupBy, <<>>))]

\* variant: a map entry is overwritten with the item instead of appended to
RECURSIVE GroupLoopOverwrite(_, _, _)
GroupLoopOverwrite(its, getter, groupMap) ==
    IF its = <<>> THEN groupMap
    ELSE LET value == PropertyGetter(getter, Head(its))
         IN  GroupLoopOverwrite(Tail(its), getter,
                 [v \in (DOMAIN groupMap) \cup {value} |->
                     IF v = value THEN <<Head(its)>> ELSE groupMap[v]])

groupItemsOverwrite(h, items, groupBy, order) ==
    LET getter == getPropertyGetter(groupBy)
    IN  IF ~getter.ok
        THEN [heap |-> h, groups |-> <<GroupedItems(AllItems, groupBy, RefSlice(items))>>]
        ELSE LET groupMap == GroupLoopOverwrite(SliceItems(h, items), getter, <<>>)
             IN  [heap |-> h,
                  groups |-> SortGroups(ConvertLoop(order, groupMap, groupBy, <<>>))]

\* variant: an empty input yields one empty group
groupItemsEmptyGroup(h, items, groupBy, order) ==
    LET getter == getPropertyGetter(groupBy)
    IN  IF ~getter.ok
        THEN [heap |-> h, groups |-> <<GroupedItems(AllItems, groupBy, RefSlice(items))>>]
        ELSE LET groupMap == GroupLoop(SliceItems(h, items), getter, <<>>)
             IN  IF items.len = 0
                 THEN [heap |-> h, groups |-> <<GroupedItems(<<>>, groupBy, OwnSlice(<<>>))>>]
                 ELSE [heap |-> h,
                       groups |-> SortGroups(ConvertLoop(order, groupMap, groupBy, <<>>))]

\* variant: the items are put in order of id in place before they are grouped
groupItemsSortsInput(h, items, groupBy, order) ==
    LET its == SliceItems(h, items)
        swapped == IF Len(its) >= 2 /\ its[2].ID < its[1].ID
                   THEN [h EXCEPT ![items.arr][1] = its[2], ![items.arr][2] = its[1]]
                   ELSE h
        getter == getPropertyGetter(groupBy)
    IN  IF ~getter.ok
        THEN [heap |-> swapped,
              groups |-> <<GroupedItems(AllItems, groupBy, RefSlice(items))>>]
        ELSE LET groupMap == GroupLoop(SliceItems(h, items), getter, <<>>)
             IN  [heap |-> swapped,
                  groups |-> SortGroups(ConvertLoop(order, groupMap, groupBy, <<>>))]

\* groupItems(items, groupBy); order is the order of the range over groupMap
groupItems(h, items, groupBy, order) ==
    LET getter == getPropertyGetter(groupBy)
    IN  IF ~getter.ok
        THEN [heap |-> h, groups |-> <<GroupedItems(AllItems, groupBy, RefSlice(items))>>]
        ELSE LET groupMap == GroupLoop(SliceItems(h, items), getter, <<>>)
             IN  [heap |-> h,
                  groups |-> SortGroups(ConvertLoop(order, groupMap, groupBy, <<>>))]

\* the records of a group
Members(h, g) ==
    IF g.Items.ref.arr # 0 THEN SliceItems(h, g.Items.ref) ELSE g.Items.own

GroupsValue(filtered, groups) ==
    [kind |-> "groups", slice |-> filtered, strings |-> <<>>, groups |-> groups]

(***************************************************************************)
(* The evaluator specification: a store is seeded, filtered, and the       *)
(* filtered records are grouped.                                           *)
(***************************************************************************)
TestItems ==
    <<Item(1, Red, Circle, CatA), Item(2, Blue, Square, CatA),
      Item(3, Red, Square, CatB), Item(4, Green, Circle, CatB)>>

EvalSeeds == SeqsUpTo(SeedItems, MaxLen) \cup {TestItems}

GroupBys == {"color", "shape", "category", "bogus"}

\* got = groupItems(got, groupBy) on the records a Filter call returned
GroupItemsCall ==
    /\ call.op = "Filter"
    /\ \E groupBy \in GroupBys :
         \E order \in KeyOrders(GroupKeys(SliceItems(heap, got.slice), groupBy)) :
          LET r == groupItems(heap, got.slice, groupBy, order)
          IN  /\ got' = GroupsValue(got.slice, r.groups)
              /\ heap' = Collect(r.heap, Live(input, store, got))
              /\ call' = [op |-> "groupItems", groupBy |-> groupBy,
                          filters |-> call.filters]
    /\ UNCHANGED <<input, store, err>>

InitEval == InitWith(EvalSeeds)

NextEval ==
    \/ NewCall
    \/ FilterCall
    \/ GetUniqueValuesCall
    \/ GroupItemsCall

SpecEval == InitEval /\ [][NextEval]_vars

(***************************************************************************)
(* Properties of the evaluator.                                            *)
(***************************************************************************)
\* the groups as a reader sees them: key, property and member records
GroupContents(h, groups) ==
    [n \in 1..Len(groups) |->
        [GroupName |-> groups[n].GroupName, Property |-> groups[n].Property,
         Members |-> Members(h, groups[n])]]

GotGroups == GroupContents(heap, got.groups)

\* the records of its whose attribute key equals value, in order
WithValue(its, key, value) ==
    LET Keep(item) == Attr(item, key) = value IN SelectSeq(its, Keep)

RECURSIVE SumOfMembers(_)
SumOfMembers(gs) ==
    IF gs = <<>> THEN 0 ELSE Len(Head(gs).Members) + SumOfMembers(Tail(gs))

\* C11: for a groupBy that is not color, shape or category groupItems returns
\* exactly one group, named "All Items", whose members are all of the filtered
\* records in store order.
C11_UnknownGroupByOneGroup ==
    (call.op = "groupItems" /\ call.groupBy \notin KnownKeys)
    => /\ Len(GotGroups) = 1
       /\ GotGroups[1].GroupName = AllItems
       /\ GotGroups[1].Members = GotItems
       /\ GotItems = Selected(StoreItems, call.filters)

\* the four-record seed, no filter, groupBy "bogus": ids 1, 2, 3, 4
C11_Witness ==
    /\ call.op = "groupItems"
    /\ call.groupBy = "bogus"
    /\ MapLen(call.filters) = 0
    /\ StoreItems = TestItems
    /\ Len(GotGroups) = 1
    /\ [n \in 1..4 |-> GotGroups[1].Members[n].ID] = <<1, 2, 3, 4>>

\* C12: for a recognized groupBy the groups partition the filtered records:
\* the members of the group with key k are exactly the filtered records whose
\* groupBy attribute is k, in filtered order, and every filtered record is in
\* exactly one group.
C12_GroupsPartitionFiltered ==
    (call.op = "groupItems" /\ call.groupBy \in KnownKeys)
    => /\ \A n \in 1..Len(GotGroups) :
             GotGroups[n].Members
               = WithValue(GotItems, call.groupBy, GotGroups[n].GroupName)
       /\ \A m \in 1..Len(GotItems) :
             Cardinality({n \in 1..Len(GotGroups) :
                            \E j \in 1..Len(GotGroups[n].Members) :
                               GotGroups[n].Members[j] = GotItems[m]}) = 1
       /\ SumOfMembers(GotGroups) = Len(GotItems)

\* two shapes among three filtered records, one shape met twice with another
\* in between
C12_Witness ==
    /\ call.op = "groupItems"
    /\ call.groupBy = "shape"
    /\ Len(GotItems) = 3
    /\ Len(GotGroups) = 2
    /\ GotItems[1].Shape = GotItems[3].Shape
    /\ GotItems[1].Shape # GotItems[2].Shape
    /\ GotItems[1] # GotItems[3]

\* C14: the groups are sorted by key under ordinal comparison without
\* duplicate keys: a group before another has a strictly smaller key.
C14_GroupsSortedByKey ==
    call.op = "groupItems"
    => \A i, j \in 1..Len(GotGroups) :
          i < j => StrLess(GotGroups[i].GroupName, GotGroups[j].GroupName)

\* three colors, met in the filtered records in an order that is not ascending
C14_Witness ==
    /\ call.op = "groupItems"
    /\ call.groupBy = "color"
    /\ Len(GotGroups) = 3
    /\ StrLess(GotItems[2].Color, GotItems[1].Color)

\* C15: filter-then-group gives the same Grouped Result whatever order the
\* filter map and the map of buckets are ranged over.
C15_EvaluationDeterministic ==
    call.op = "groupItems"
    => \A o \in RangeOrders(call.filters) :
          LET live == Live(input, store, NoValue)
              f == Filter(Collect(heap, live), live, store, call.filters, o)
          IN  \A b \in KeyOrders(GroupKeys(SliceItems(f.heap, f.slice), call.groupBy)) :
                 LET g == groupItems(f.heap, f.slice, call.groupBy, b)
                 IN  GroupContents(g.heap, g.groups) = GotGroups

\* a filter map of two entries and two buckets: two orders each
C15_Witness ==
    /\ call.op = "groupItems"
    /\ MapLen(call.filters) = 2
    /\ Len(GotGroups) = 2
    /\ Len(GotItems) = 2

\* C19: Filter, GetUniqueValues and groupItems leave the records of the store
\* as they were, and groupItems leaves the filtered sequence it is given as it
\* was.
C19_QueriesLeaveStoreAndFiltered ==
    [][/\ (call'.op \in {"Filter", "GetUniqueValues", "groupItems"})
          => /\ store' = store
             /\ SliceItems(heap', store'.items) = StoreItems
             /\ SliceItems(heap', input') = InputItems
       /\ (call'.op = "groupItems")
          => /\ got'.slice = got.slice
             /\ SliceItems(heap', got'.slice) = GotItems]_vars

\* groupItems has grouped two filtered records that are not in order of id
C19_Witness ==
    /\ call.op = "groupItems"
    /\ Len(GotItems) >= 2
    /\ GotItems[2].ID < GotItems[1].ID
    /\ StoreItems = InputItems

(***************************************************************************)
(* The items handlers.  A request carries the query parameters as Go       *)
(* strings: the repeated filter parameters in order of appearance,         *)
(* filterBy, filterValue and groupBy ("" when absent).                     *)
(***************************************************************************)
Purple == <<"p", "u", "r", "p", "l", "e">>

\* a Go string as a key of a map or an argument of a switch
RECURSIVE Str(_)
Str(cs) == IF cs = <<>> THEN "" ELSE Head(cs) \o Str(Tail(cs))

RECURSIVE IndexColon(_, _)
IndexColon(s, n) ==
    IF n > Len(s) THEN 0 ELSE IF s[n] = ":" THEN n ELSE IndexColon(s, n + 1)

\* variant: strings.Split(filter, ":"), the number of parts is one more than the colons
SplitAll(s) ==
    LET colons == {n \in 1..Len(s) : s[n] = ":"}
        k == IndexColon(s, 1)
    IN  IF Cardinality(colons) = 1
        THEN <<SubSeq(s, 1, k - 1), SubSeq(s, k + 1, Len(s))>>
        ELSE [n \in 1..(Cardinality(colons) + 1) |-> <<>>]

\* strings.SplitN(filter, ":", 2)
SplitN(s) ==
    LET k == IndexColon(s, 1)
    IN  IF k = 0 THEN <<s>> ELSE <<SubSeq(s, 1, k - 1), SubSeq(s, k + 1, Len(s))>>

\* m[key] = value
MapPut(m, key, value) ==
    [x \in (DOMAIN m) \cup {key} |-> IF x = key THEN value ELSE m[x]]

RECURSIVE ParseLoop(_, _)
ParseLoop(params, m) ==
    IF params = <<>> THEN m
    ELSE LET parts == SplitN(Head(params))
         IN  ParseLoop(Tail(params),
                       IF Len(parts) = 2 THEN MapPut(m, Str(parts[1]), parts[2]) ELSE m)

\* the filters map of the store-backed handler: the filter parameters, then
\* the old filterBy/filterValue form
RequestFilters(req) ==
    LET m == ParseLoop(req.filter, <<>>)
    IN  MakeMap(IF req.filterBy # <<>> /\ req.filterValue # <<>>
                THEN MapPut(m, Str(req.filterBy), req.filterValue)
                ELSE m)

\* variant: every value of the store's seed records gets a group, met or not
groupItemsMapAllValues(h, items, groupBy) ==
    LET its == SliceItems(h, items)
        Buckets(field) ==
            LET getter == [ok |-> TRUE, field |-> field]
                grouped == GroupLoop(its, getter, <<>>)
                all == {PropertyGetter(getter, i) : i \in SeedItems}
            IN  [v \in all \cup DOMAIN grouped |->
                    OwnSlice(IF v \in DOMAIN grouped THEN grouped[v] ELSE <<>>)]
    IN  CASE groupBy = "color" -> Buckets("Color")
          [] groupBy = "shape" -> Buckets("Shape")
          [] groupBy = "category" -> Buckets("Category")
          [] OTHER -> [v \in {<<"A", "l", "l">>} |-> RefSlice(items)]

\* groupItems of the store-backed handler: a map from key to records
groupItemsMap(h, items, groupBy) ==
    LET its == SliceItems(h, items)
        Buckets(field) ==
            LET grouped == GroupLoop(its, [ok |-> TRUE, field |-> field], <<>>)
            IN  [v \in DOMAIN grouped |-> OwnSlice(grouped[v])]
    IN  CASE groupBy = "color" -> Buckets("Color")
          [] groupBy = "shape" -> Buckets("Shape")
          [] groupBy = "category" -> Buckets("Category")
          [] OTHER -> [v \in {<<"A", "l", "l">>} |-> RefSlice(items)]

\* len(store.Filter(map[string]string{property: value})); only the length of
\* the result is kept, so its array is dropped before the next allocation
CountOf(h, live, s, property, value) ==
    LET r == Filter(h, live, s, MakeMap([k \in {property} |-> value]), <<property>>)
    IN  r.slice.len

UniqueCounts(h, live, s, property) ==
    LET values == GetUniqueValues(h, s, property)
    IN  [v \in {values[n] : n \in 1..Len(values)} |-> CountOf(h, live, s, property, v)]

\* variant: a request without groupBy is not grouped by a property
HandlerGroupByNone(req) == req.groupBy

\* the group-by a handler resolves for a request
HandlerGroupBy(req) == IF req.groupBy = "" THEN "shape" ELSE req.groupBy

\* itemsHandler of the store-backed server; order is the range order of Filter
itemsHandlerStore(h, live, s, req, order) ==
    LET groupBy == HandlerGroupBy(req)
        filters == RequestFilters(req)
        f == Filter(h, live, s, filters, order)
        live2 == live \cup ({f.slice.arr} \ {0})
        all == Filter(f.heap, live2, s, NilMap, <<>>)
    IN  [heap |-> f.heap,
         page |-> [kind |-> "page", slice |-> f.slice, strings |-> <<>>,
                   GroupedItems |-> groupItemsMap(f.heap, f.slice, groupBy),
                   GroupBy |-> groupBy,
                   UniqueColors |-> UniqueCounts(f.heap, live, s, "color"),
                   UniqueShapes |-> UniqueCounts(f.heap, live, s, "shape"),
                   UniqueCategories |-> UniqueCounts(f.heap, live, s, "category"),
                   ActiveFilters |-> filters,
                   AllItems |-> SliceItems(all.heap, all.slice)]]

(***************************************************************************)
(* The items handler over the global items (the last server of main.go).   *)
(***************************************************************************)
RECURSIVE FilterItemsLoop(_, _, _, _, _, _)
FilterItemsLoop(h, live, its, getter, filterValue, filteredItems) ==
    IF its = <<>> THEN [heap |-> h, slice |-> filteredItems]
    ELSE IF PropertyGetter(getter, Head(its)) = filterValue
         THEN LET r == append(h, live, filteredItems, Head(its))
              IN  FilterItemsLoop(r.heap, live, Tail(its), getter, filterValue, r.slice)
         ELSE FilterItemsLoop(h, live, Tail(its), getter, filterValue, filteredItems)

\* variant: the loop stops after the first item that matches
FilterItemsFirstMatch(h, live, items, filterBy, filterValue) ==
    IF filterBy # "" /\ filterValue # <<>>
    THEN LET getter == getPropertyGetter(filterBy)
             Hit(item) == PropertyGetter(getter, item) = filterValue
             hits == IF getter.ok THEN SelectSeq(SliceItems(h, items), Hit) ELSE <<>>
         IN  IF hits = <<>>
             THEN [heap |-> h, slice |-> NilSlice]
             ELSE append(h, live, NilSlice, hits[1])
    ELSE [heap |-> h, slice |-> items]

\* the filter step of the handler
FilterItems(h, live, items, filterBy, filterValue) ==
    IF filterBy # "" /\ filterValue # <<>>
    THEN LET getter == getPropertyGetter(filterBy)
         IN  IF getter.ok
             THEN FilterItemsLoop(h, live, SliceItems(h, items), getter, filterValue, NilSlice)
             ELSE [heap |-> h, slice |-> NilSlice]
    ELSE [heap |-> h, slice |-> items]

RECURSIVE ValuesLoop(_, _, _, _)
ValuesLoop(its, getter, valueMap, values) ==
    IF its = <<>> THEN values
    ELSE LET value == PropertyGetter(getter, Head(its))
         IN  IF value \notin valueMap
             THEN ValuesLoop(Tail(its), getter, valueMap \cup {value}, values \o <<value>>)
             ELSE ValuesLoop(Tail(its), getter, valueMap, values)

getUniqueValues(its, getter) == SortStrings(ValuesLoop(its, getter, {}, <<>>))

ErrorResponse(status) ==
    [kind |-> "error", slice |-> NilSlice, strings |-> <<>>, status |-> status]

\* itemsHandler; order is the order of the range over groupMap
itemsHandler(h, live, items, req, order) ==
    IF req.method # "GET"
    THEN [heap |-> h, page |-> ErrorResponse(405)]
    ELSE LET groupBy == HandlerGroupBy(req)
             f == FilterItems(h, live, items, Str(req.filterBy), req.filterValue)
             g == groupItems(f.heap, f.slice, groupBy, order)
             its == SliceItems(h, items)
         IN  [heap |-> g.heap,
              page |-> [kind |-> "page", slice |-> f.slice, strings |-> <<>>,
                        Groups |-> g.groups,
                        GroupBy |-> groupBy,
                        AllColors |-> getUniqueValues(its, getPropertyGetter("color")),
                        AllShapes |-> getUniqueValues(its, getPropertyGetter("shape")),
                        AllCategories |-> getUniqueValues(its, getPropertyGetter("category"))]]

(***************************************************************************)
(* The server: a request arrives, one of the handlers answers it, the      *)
(* response is written.  The global items and the store are set up before  *)
(* the server listens.                                                     *)
(***************************************************************************)
MaxFilterParams == 2   \* most filter parameters of one request

ColonRed == <<":">> \o Red

Request(method, filter, filterBy, filterValue, groupBy) ==
    [method |-> method, filter |-> filter, filterBy |-> filterBy,
     filterValue |-> filterValue, groupBy |-> groupBy]

FilterParams ==
    {<<"c", "o", "l", "o", "r", ":">> \o Red,
     <<"c", "o", "l", "o", "r">>,
     ColonRed,
     <<"s", "h", "a", "p", "e", ":">>}

FilterBys ==
    {<<>>, <<"c", "o", "l", "o", "r">>, <<"s", "h", "a", "p", "e">>,
     <<"s", "i", "z", "e">>, <<"c", "o", "l", "o", "r", ":">>}

FilterValuesSent == {<<>>, Red, Purple, ColonRed}

LegacyRequests ==
    {Request("GET", <<>>, k, v, g) :
        k \in FilterBys, v \in FilterValuesSent, g \in {""} \cup GroupBys}

MultiRequests ==
    {Request("GET", fs, <<>>, <<>>, g) :
        fs \in SeqsUpTo(FilterParams, MaxFilterParams), g \in {"", "color"}}

Requests ==
    LegacyRequests \cup MultiRequests \cup {Request("POST", <<>>, <<>>, <<>>, "")}

InitHandler ==
    /\ \E its \in EvalSeeds :
          /\ input = SliceLiteral(its)
          /\ heap = [a \in ArrIds |-> IF a = 1 THEN its ELSE <<>>]
          /\ store = New(heap, input).store
          /\ err = New(heap, input).err
    /\ err = NoError
    /\ got = NoValue
    /\ call = [op |-> "idle"]

ReceiveRequest ==
    /\ call.op = "idle"
    /\ \E req \in Requests : call' = [op |-> "request", req |-> req]
    /\ UNCHANGED <<heap, input, store, err, got>>

\* the handler over the global items answers
ItemsHandlerCall ==
    /\ call.op = "request"
    /\ LET live == Live(input, store, NoValue)
           h == Collect(heap, live)
           req == call.req
           f == FilterItems(h, live, input, Str(req.filterBy), req.filterValue)
       IN  \E order \in KeyOrders(GroupKeys(SliceItems(f.heap, f.slice), HandlerGroupBy(req))) :
             LET r == itemsHandler(h, live, input, req, order)
             IN  /\ got' = r.page
                 /\ heap' = Collect(r.heap, Live(input, store, r.page))
    /\ call' = [op |-> "itemsHandler", req |-> call.req]
    /\ UNCHANGED <<input, store, err>>

\* the store-backed handler answers
StoreItemsHandlerCall ==
    /\ call.op = "request"
    /\ LET live == Live(input, store, NoValue)
           h == Collect(heap, live)
       IN  \E order \in RangeOrders(RequestFilters(call.req)) :
             LET r == itemsHandlerStore(h, live, store, call.req, order)
             IN  /\ got' = r.page
                 /\ heap' = Collect(r.heap, Live(input, store, r.page))
    /\ call' = [op |-> "itemsHandlerStore", req |-> call.req]
    /\ UNCHANGED <<input, store, err>>

ResponseWritten ==
    /\ call.op \in {"itemsHandler", "itemsHandlerStore", "itemsHandlerHover"}
    /\ got' = NoValue
    /\ heap' = Collect(heap, Live(input, store, NoValue))
    /\ call' = [op |-> "idle"]
    /\ UNCHANGED <<input, store, err>>

NextHandler ==
    ReceiveRequest \/ ItemsHandlerCall \/ StoreItemsHandlerCall \/ ResponseWritten

SpecHandler == InitHandler /\ [][NextHandler]_vars

(***************************************************************************)
(* Vocabulary of the statements about the handlers.                        *)
(***************************************************************************)
\* the filter set that filterBy and filterValue of a request denote
LegacyFilterSet(req) ==
    MakeMap(IF req.filterBy # <<>> /\ req.filterValue # <<>>
            THEN [k \in {Str(req.filterBy)} |-> req.filterValue]
            ELSE <<>>)

PageGroups == GroupContents(heap, got.Groups)

\* the members of every group of a map of groups
MapContents(h, grouped) ==
    [k \in DOMAIN grouped |-> Members(h, [Items |-> grouped[k]])]

AnsweredByItemsHandler == call.op = "itemsHandler" /\ got.kind = "page"

AnsweredByStoreHandler == call.op = "itemsHandlerStore" /\ got.kind = "page"

\* C13: the member counts of the groups that the items handler returns for a
\* request add up to the number of records that filtering with the filter set
\* of the request selects, whatever the groupBy.
C13_MemberCountsSumToFiltered ==
    AnsweredByItemsHandler
    => SumOfMembers(PageGroups)
         = Len(Selected(InputItems, LegacyFilterSet(call.req)))

\* C16: when the filter set of the request matches no record and groupBy is a
\* recognized key or absent, the filtered sequence is empty and the handler
\* returns zero groups.
C16_NoMatchNoGroups ==
    /\ ( /\ AnsweredByItemsHandler
         /\ call.req.groupBy \in KnownKeys \cup {""}
         /\ Selected(InputItems, LegacyFilterSet(call.req)) = <<>> )
       => (got.slice.len = 0 /\ got.Groups = <<>>)
    /\ ( /\ AnsweredByStoreHandler
         /\ call.req.groupBy \in KnownKeys \cup {""}
         /\ Selected(StoreItems, RequestFilters(call.req)) = <<>> )
       => (got.slice.len = 0 /\ DOMAIN got.GroupedItems = {})

\* the four-record seed, color = purple, no groupBy
C16_Witness ==
    /\ AnsweredByItemsHandler
    /\ InputItems = TestItems
    /\ call.req.filterBy = <<"c", "o", "l", "o", "r">>
    /\ call.req.filterValue = Purple
    /\ call.req.groupBy = ""
    /\ got.Groups = <<>>

\* C17: a request without groupBy, or with an empty one, is answered with the
\* groups of the same request with groupBy=shape, by the handler over the
\* global items and by the store-backed handler.
C17_DefaultGroupByShape ==
    LET live == Live(input, store, NoValue)
        h == Collect(heap, live)
        req == [call.req EXCEPT !.groupBy = "shape"]
    IN  /\ (AnsweredByItemsHandler /\ call.req.groupBy = "")
           => \A order \in KeyOrders(GroupKeys(GotItems, "shape")) :
                LET r == itemsHandler(h, live, input, req, order)
                IN  /\ GroupContents(r.heap, r.page.Groups) = PageGroups
                    /\ r.page.GroupBy = got.GroupBy
        /\ (AnsweredByStoreHandler /\ call.req.groupBy = "")
           => \A order \in RangeOrders(RequestFilters(req)) :
                LET r == itemsHandlerStore(h, live, store, req, order)
                IN  /\ MapContents(r.heap, r.page.GroupedItems)
                         = MapContents(heap, got.GroupedItems)
                    /\ r.page.GroupBy = got.GroupBy

\* the four-record seed, no filter, no groupBy: circle 1, 4 and square 2, 3
C17_Witness ==
    /\ AnsweredByItemsHandler
    /\ InputItems = TestItems
    /\ call.req.groupBy = ""
    /\ call.req.filterBy = <<>>
    /\ Len(PageGroups) = 2
    /\ PageGroups[1].GroupName = Circle
    /\ [n \in 1..2 |-> PageGroups[1].Members[n].ID] = <<1, 4>>
    /\ [n \in 1..2 |-> PageGroups[2].Members[n].ID] = <<2, 3>>

\* the request whose only filter parameter is filter=k:v, for the k and v that
\* the answered request sent as filterBy and filterValue
MultiForm(req) ==
    [req EXCEPT !.filter = <<req.filterBy \o <<":">> \o req.filterValue>>,
                !.filterBy = <<>>,
                !.filterValue = <<>>]

\* the store-backed handler derives for the multi form the filter set and the
\* filtered records of the answered request
SameAsMultiForm ==
    LET live == Live(input, store, NoValue)
        h == Collect(heap, live)
        multi == MultiForm(call.req)
    IN  /\ RequestFilters(multi) = got.ActiveFilters
        /\ \A order \in RangeOrders(RequestFilters(multi)) :
              LET r == itemsHandlerStore(h, live, store, multi, order)
              IN  SliceItems(r.heap, r.page.slice) = GotItems

AnsweredLegacyForm ==
    /\ AnsweredByStoreHandler
    /\ call.req.filter = <<>>
    /\ call.req.filterValue # <<>>

\* C20 as stated: for every key k and non-empty value v, filterBy=k with
\* filterValue=v gives the filter set and the filtered records of filter=k:v.
C20_LegacyEqualsMultiAnyKey == AnsweredLegacyForm => SameAsMultiForm

\* C20: for every non-empty key k without ':' and every non-empty value v,
\* filterBy=k with filterValue=v gives the filter set and the filtered records
\* of the request whose only filter parameter is filter=k:v.
C20_LegacyEqualsMulti ==
    ( /\ AnsweredLegacyForm
      /\ call.req.filterBy # <<>>
      /\ IndexColon(call.req.filterBy, 1) = 0 )
    => SameAsMultiForm

\* the four-record seed, filterBy=color and filterValue=red: records 1 and 3
C20_Witness ==
    /\ AnsweredLegacyForm
    /\ StoreItems = TestItems
    /\ call.req.filterBy = <<"c", "o", "l", "o", "r">>
    /\ call.req.filterValue = Red
    /\ got.ActiveFilters = MakeMap([k \in {"color"} |-> Red])
    /\ [n \in 1..2 |-> GotItems[n].ID] = <<1, 3>>

(***************************************************************************)
(* Concurrent invocations on one store.  The server runs every request in  *)
(* a goroutine of its own; an invocation reads one record of the store per *)
(* step, and the steps of the invocations interleave.  call[p] is the      *)
(* frame of invocation p and got[p] its local variables.                   *)
(***************************************************************************)
NumProcs == 2   \* invocations that run at once

Procs == 1..NumProcs

Frame(op, filters, property, pc, k) ==
    [op |-> op, filters |-> filters, property |-> property, pc |-> pc, k |-> k]

IdleFrame == Frame("idle", NilMap, "", "idle", 0)

Locals(slice, strings, groupMap, groups) ==
    [kind |-> "locals", slice |-> slice, strings |-> strings,
     groupMap |-> groupMap, groups |-> groups]

\* variant: the result is built in the store's own array, result := s.items[:0]
FilterResultInPlace(s) == [s.items EXCEPT !.len = 0]

\* var result []Item
FilterResult(s) == NilSlice

NoLocals == Locals(NilSlice, <<>>, <<>>, <<>>)

Invocations ==
    {Frame("Filter", MakeMap([k \in {"color"} |-> Red]), "", "loop", 0),
     Frame("Filter", NilMap, "", "copy", 0),
     Frame("GetUniqueValues", NilMap, "color", "loop", 0),
     Frame("groupItems", NilMap, "shape", "loop", 0)}

ConcSeeds == {SubSeq(TestItems, 1, n) : n \in 0..MaxLen}

LiveConc(in, st, g) ==
    ({in.arr, st.items.arr} \cup {g[p].slice.arr : p \in Procs}) \ {0}

InitConc ==
    /\ \E its \in ConcSeeds :
          /\ input = SliceLiteral(its)
          /\ heap = [a \in ArrIds |-> IF a = 1 THEN its ELSE <<>>]
          /\ store = New(heap, input).store
          /\ err = New(heap, input).err
    /\ err = NoError
    /\ got = [p \in Procs |-> NoLocals]
    /\ call = [p \in Procs |-> IdleFrame]

\* the record that the range loop of invocation p reads next
NextRecord(p) == heap[store.items.arr][call[p].k + 1]

Begin(p) ==
    /\ call[p].pc = "idle"
    /\ \E inv \in Invocations : call' = [call EXCEPT ![p] = inv]
    /\ got' = [got EXCEPT ![p] = Locals(FilterResult(store), <<>>, <<>>, <<>>)]
    /\ UNCHANGED <<heap, input, store, err>>

\* make and copy of Filter with no filters
FilterCopy(p) ==
    /\ call[p].op = "Filter" /\ call[p].pc = "copy"
    /\ LET r == Filter(heap, LiveConc(input, store, got), store, call[p].filters, <<>>)
           g == [got EXCEPT ![p].slice = r.slice]
       IN  /\ got' = g
           /\ heap' = Collect(r.heap, LiveConc(input, store, g))
    /\ call' = [call EXCEPT ![p].pc = "done"]
    /\ UNCHANGED <<input, store, err>>

\* one pass of ItemLoop
FilterStep(p) ==
    /\ call[p].op = "Filter" /\ call[p].pc = "loop"
    /\ call[p].k < store.items.len
    /\ \E order \in RangeOrders(call[p].filters) :
          LET r == FilterLoop(heap, LiveConc(input, store, got), <<NextRecord(p)>>,
                              call[p].filters, order, got[p].slice)
              g == [got EXCEPT ![p].slice = r.slice]
          IN  /\ got' = g
              /\ heap' = Collect(r.heap, LiveConc(input, store, g))
    /\ call' = [call EXCEPT ![p].k = @ + 1]
    /\ UNCHANGED <<input, store, err>>

\* one pass of the loop of GetUniqueValues
UniqueStep(p) ==
    /\ call[p].op = "GetUniqueValues" /\ call[p].pc = "loop"
    /\ call[p].k < store.items.len
    /\ LET result == got[p].strings
           values == {result[n] : n \in 1..Len(result)}
       IN  got' = [got EXCEPT ![p].strings =
                      UniqueLoop(<<NextRecord(p)>>, call[p].property, values, result)]
    /\ call' = [call EXCEPT ![p].k = @ + 1]
    /\ UNCHANGED <<heap, input, store, err>>

\* one pass of the grouping loop of groupItems over the shared records
GroupStep(p) ==
    /\ call[p].op = "groupItems" /\ call[p].pc = "loop"
    /\ call[p].k < store.items.len
    /\ got' = [got EXCEPT ![p].groupMap =
                  GroupLoop(<<NextRecord(p)>>, getPropertyGetter(call[p].property), @)]
    /\ call' = [call EXCEPT ![p].k = @ + 1]
    /\ UNCHANGED <<heap, input, store, err>>

\* the loop is over: sort what was collected and return
Finish(p) ==
    /\ call[p].pc = "loop"
    /\ call[p].k = store.items.len
    /\ \E order \in KeyOrders(DOMAIN got[p].groupMap) :
          got' = [got EXCEPT
                    ![p].strings = SortStrings(@),
                    ![p].groups = SortGroups(ConvertLoop(order, got[p].groupMap,
                                                         call[p].property, <<>>))]
    /\ call' = [call EXCEPT ![p].pc = "done"]
    /\ UNCHANGED <<heap, input, store, err>>

\* the caller drops the result
Return(p) ==
    /\ call[p].pc = "done"
    /\ LET g == [got EXCEPT ![p] = NoLocals]
       IN  /\ got' = g
           /\ heap' = Collect(heap, LiveConc(input, store, g))
    /\ call' = [call EXCEPT ![p] = IdleFrame]
    /\ UNCHANGED <<input, store, err>>

NextConc ==
    \E p \in Procs :
        \/ Begin(p)
        \/ FilterCopy(p)
        \/ FilterStep(p)
        \/ UniqueStep(p)
        \/ GroupStep(p)
        \/ Finish(p)
        \/ Return(p)

SpecConc == InitConc /\ [][NextConc]_vars

\* what invocation p returns when it runs alone on the store
RunAlone(p) ==
    LET live == {store.items.arr} \ {0}
        h == Collect(heap, live)
    IN  CASE call[p].op = "Filter" ->
               {LET r == Filter(h, live, store, call[p].filters, order)
                IN  Locals(NilSlice, <<>>, <<>>, SliceItems(r.heap, r.slice)) :
                    order \in RangeOrders(call[p].filters)}
          [] call[p].op = "GetUniqueValues" ->
               {Locals(NilSlice, GetUniqueValues(h, store, call[p].property), <<>>, <<>>)}
          [] call[p].op = "groupItems" ->
               {LET r == groupItems(h, store.items, call[p].property, order)
                IN  Locals(NilSlice, <<>>, <<>>, GroupContents(r.heap, r.groups)) :
                    order \in KeyOrders(GroupKeys(StoreItems, call[p].property))}

\* what invocation p has returned
Returned(p) ==
    CASE call[p].op = "Filter" ->
           Locals(NilSlice, <<>>, <<>>, SliceItems(heap, got[p].slice))
      [] call[p].op = "GetUniqueValues" ->
           Locals(NilSlice, got[p].strings, <<>>, <<>>)
      [] call[p].op = "groupItems" ->
           Locals(NilSlice, <<>>, <<>>, GroupContents(heap, got[p].groups))

\* C18: in every interleaving of the steps of concurrent Filter,
\* GetUniqueValues and groupItems invocations on one store, no step changes
\* the store's records, and every invocation returns what it returns when it
\* runs alone.
C18_ConcurrentInvocationsIndependent ==
    /\ [](\A p \in Procs : call[p].pc = "done" => RunAlone(p) = {Returned(p)})
    /\ [][store' = store /\ SliceItems(heap', store'.items) = StoreItems]_vars

\* two invocations in the middle of their loops, a Filter that has appended a
\* record and a GetUniqueValues that has not read that far yet
C18_Witness ==
    /\ call[1].op = "Filter" /\ call[1].pc = "loop" /\ call[1].k = 3
    /\ got[1].slice.len = 2
    /\ call[2].op = "GetUniqueValues" /\ call[2].pc = "loop" /\ call[2].k = 1

\* a filter parameter with a ':' separator, a non-empty key before it and a
\* non-empty value after it
WellFormedParam(f) ==
    LET k == IndexColon(f, 1) IN k > 1 /\ k < Len(f)

\* C21: the store-backed handler derives from the filter parameters of a
\* request the filter set of its well-formed parameters alone: a parameter
\* without ':', with an empty key or with an empty value adds no entry.
C21_MalformedParamsIgnored ==
    (AnsweredByStoreHandler /\ call.req.filterBy = <<>>)
    => got.ActiveFilters
         = RequestFilters([call.req EXCEPT
                             !.filter = SelectSeq(call.req.filter, WellFormedParam)])

\* C22: when filterBy names no recognized key and filterValue is not empty,
\* the handler over the global items hands all the records to grouping, as it
\* does when no filter is supplied.
C22_UnknownFilterByIgnored ==
    ( /\ AnsweredByItemsHandler
      /\ call.req.filterBy # <<>>
      /\ Str(call.req.filterBy) \notin KnownKeys
      /\ call.req.filterValue # <<>> )
    => GotItems = InputItems

\* C23: for a groupBy that is not color, shape or category the store-backed
\* handler returns one group, keyed "All Items", whose members are all of the
\* filtered records in store order.
C23_StoreUnknownGroupByAllItems ==
    (AnsweredByStoreHandler /\ call.req.groupBy \notin KnownKeys \cup {""})
    => /\ DOMAIN got.GroupedItems = {AllItems}
       /\ \A k \in DOMAIN got.GroupedItems :
             MapContents(heap, got.GroupedItems)[k] = GotItems
       /\ GotItems = Selected(StoreItems, got.ActiveFilters)

(***************************************************************************)
(* The hover-reorganize server: its items handler returns all the items,   *)
(* those that match the filter first.                                      *)
(***************************************************************************)
\* the switch on filterBy that sets matches
Matches(item, filterBy, filterValue) ==
    CASE filterBy = "color" -> item.Color = filterValue
      [] filterBy = "shape" -> item.Shape = filterValue
      [] filterBy = "category" -> item.Category = filterValue
      [] OTHER -> FALSE

\* one of the two loops: append the items whose matches equals want
RECURSIVE HoverLoop(_, _, _, _, _, _, _)
HoverLoop(h, live, its, filterBy, filterValue, want, filteredItems) ==
    IF its = <<>> THEN [heap |-> h, slice |-> filteredItems]
    ELSE IF Matches(Head(its), filterBy, filterValue) = want
         THEN LET r == append(h, live, filteredItems, Head(its))
              IN  HoverLoop(r.heap, live, Tail(its), filterBy, filterValue, want, r.slice)
         ELSE HoverLoop(h, live, Tail(its), filterBy, filterValue, want, filteredItems)

\* variant: the loop over the non-matching items is left out
itemsHandlerHoverMatchingOnly(h, live, items, req) ==
    LET filterBy == Str(req.filterBy)
        f == IF filterBy # "" /\ req.filterValue # <<>>
             THEN HoverLoop(h, live, SliceItems(h, items), filterBy, req.filterValue,
                            TRUE, NilSlice)
             ELSE [heap |-> h, slice |-> items]
    IN  [heap |-> f.heap,
         page |-> [kind |-> "page", slice |-> f.slice, strings |-> <<>>]]

\* itemsHandler of the hover-reorganize server; make([]Item, 0) has no array
itemsHandlerHover(h, live, items, req) ==
    LET filterBy == Str(req.filterBy)
        f == IF filterBy # "" /\ req.filterValue # <<>>
             THEN LET first == HoverLoop(h, live, SliceItems(h, items), filterBy,
                                         req.filterValue, TRUE, NilSlice)
                  IN  HoverLoop(first.heap, live, SliceItems(first.heap, items), filterBy,
                                req.filterValue, FALSE, first.slice)
             ELSE [heap |-> h, slice |-> items]
    IN  [heap |-> f.heap,
         page |-> [kind |-> "page", slice |-> f.slice, strings |-> <<>>]]

ReceiveHoverRequest ==
    /\ call.op = "idle"
    /\ \E req \in LegacyRequests : call' = [op |-> "request", req |-> req]
    /\ UNCHANGED <<heap, input, store, err, got>>

HoverItemsHandlerCall ==
    /\ call.op = "request"
    /\ LET live == Live(input, store, NoValue)
           r == itemsHandlerHover(Collect(heap, live), live, input, call.req)
       IN  /\ got' = r.page
           /\ heap' = Collect(r.heap, Live(input, store, r.page))
    /\ call' = [op |-> "itemsHandlerHover", req |-> call.req]
    /\ UNCHANGED <<input, store, err>>

NextHover == ReceiveHoverRequest \/ HoverItemsHandlerCall \/ ResponseWritten

SpecHover == InitHandler /\ [][NextHover]_vars

\* the number of places of its that hold item
Occurrences(its, item) == Cardinality({n \in 1..Len(its) : its[n] = item})

\* C24: for a recognized filterBy and a non-empty filterValue the
\* hover-reorganize handler returns a permutation of the item list in which
\* every matching item comes before every non-matching one, and the matching
\* items, like the non-matching ones, keep their relative order.
C24_HoverMatchingFirst ==
    ( /\ call.op = "itemsHandlerHover"
      /\ Str(call.req.filterBy) \in KnownKeys
      /\ call.req.filterValue # <<>> )
    => LET IsMatch(item) == Attr(item, Str(call.req.filterBy)) = call.req.filterValue
           NoMatch(item) == ~IsMatch(item)
       IN  /\ Len(GotItems) = Len(InputItems)
           /\ \A n \in 1..Len(InputItems) :
                 Occurrences(GotItems, InputItems[n])
                   = Occurrences(InputItems, InputItems[n])
           /\ \A m, n \in 1..Len(GotItems) :
                 (IsMatch(GotItems[m]) /\ NoMatch(GotItems[n])) => m < n
           /\ SelectSeq(GotItems, IsMatch) = SelectSeq(InputItems, IsMatch)
           /\ SelectSeq(GotItems, NoMatch) = SelectSeq(InputItems, NoMatch)

\* the four-record seed, color = red: ids 1, 3, 2, 4
C24_Witness ==
    /\ call.op = "itemsHandlerHover"
    /\ InputItems = TestItems
    /\ call.req.filterBy = <<"c", "o", "l", "o", "r">>
    /\ call.req.filterValue = Red
    /\ [n \in 1..4 |-> GotItems[n].ID] = <<1, 3, 2, 4>>

(***************************************************************************)
(* The client.  The window location is the list of the query parameters    *)
(* of its URL, each value percent-encoded as URLSearchParams writes it.    *)
(* In the client specification input holds the window location and got     *)
(* the calls made to history.pushState and htmx.ajax.                      *)
(***************************************************************************)
Param(name, value) == [name |-> name, value |-> value]

\* URLSearchParams.toString() on one value: ':' is written %3A
RECURSIVE Encode(_)
Encode(cs) ==
    IF cs = <<>> THEN <<>>
    ELSE (IF Head(cs) = ":" THEN <<"%", "3", "A">> ELSE <<Head(cs)>>) \o Encode(Tail(cs))

\* new URLSearchParams(url.search) on one value
RECURSIVE Decode(_)
Decode(cs) ==
    IF cs = <<>> THEN <<>>
    ELSE IF Len(cs) >= 3 /\ SubSeq(cs, 1, 3) = <<"%", "3", "A">>
         THEN <<":">> \o Decode(SubSeq(cs, 4, Len(cs)))
         ELSE <<Head(cs)>> \o Decode(Tail(cs))

\* params.getAll(name)
RECURSIVE getAll(_, _)
getAll(params, name) ==
    IF params = <<>> THEN <<>>
    ELSE (IF Head(params).name = name THEN <<Decode(Head(params).value)>> ELSE <<>>)
         \o getAll(Tail(params), name)

\* params.get(name); null is the empty string here, both are falsy
get(params, name) ==
    LET all == getAll(params, name) IN IF all = <<>> THEN <<>> ELSE all[1]

\* filter.split(':')
RECURSIVE split(_)
split(cs) ==
    LET k == IndexColon(cs, 1)
    IN  IF k = 0 THEN <<cs>>
        ELSE <<SubSeq(cs, 1, k - 1)>> \o split(SubSeq(cs, k + 1, Len(cs)))

\* const [type, value] = parts; a missing part is undefined, falsy like ""
Destructure(parts) ==
    [type |-> parts[1], value |-> IF Len(parts) >= 2 THEN parts[2] ELSE <<>>]

RECURSIVE CurrentFilters(_)
CurrentFilters(all) ==
    IF all = <<>> THEN <<>>
    ELSE LET f == Destructure(split(Head(all)))
         IN  (IF f.type # <<>> /\ f.value # <<>> THEN <<f>> ELSE <<>>)
             \o CurrentFilters(Tail(all))

\* findIndex, counted from 1; 0 when no element satisfies the test
FindExact(filters, filterType, filterValue) ==
    LET hits == {n \in 1..Len(filters) :
                    filters[n].type = filterType /\ filters[n].value = filterValue}
    IN  IF hits = {} THEN 0 ELSE CHOOSE n \in hits : \A m \in hits : n <= m

FindType(filters, filterType) ==
    LET hits == {n \in 1..Len(filters) : filters[n].type = filterType}
    IN  IF hits = {} THEN 0 ELSE CHOOSE n \in hits : \A m \in hits : n <= m

\* currentFilters.splice(index, 1)
Splice(filters, index) ==
    SubSeq(filters, 1, index - 1) \o SubSeq(filters, index + 1, Len(filters))

\* variant: a filter of the same type is added next to the old one
UpdateFiltersAppend(filters, filterType, filterValue) ==
    LET existingFilterIndex == FindExact(filters, filterType, filterValue)
    IN  IF existingFilterIndex >= 1
        THEN Splice(filters, existingFilterIndex)
        ELSE filters \o <<[type |-> filterType, value |-> filterValue]>>

\* toggle off, replace or add
UpdateFilters(filters, filterType, filterValue) ==
    LET existingFilterIndex == FindExact(filters, filterType, filterValue)
        sameTypeIndex == FindType(filters, filterType)
    IN  IF existingFilterIndex >= 1
        THEN Splice(filters, existingFilterIndex)
        ELSE IF sameTypeIndex >= 1
             THEN [filters EXCEPT ![sameTypeIndex] =
                      [type |-> filterType, value |-> filterValue]]
             ELSE filters \o <<[type |-> filterType, value |-> filterValue]>>

Shape == <<"s", "h", "a", "p", "e">>

\* variant: the grouping is reset to shape
CurrentGroupByReset(params) == Shape

\* params.get('groupBy') || 'shape'
CurrentGroupBy(params) ==
    IF get(params, "groupBy") # <<>> THEN get(params, "groupBy") ELSE Shape

\* the parameters of the new URL
NewParams(params, filterType, filterValue) ==
    LET currentFilters ==
            UpdateFilters(CurrentFilters(getAll(params, "filter")), filterType, filterValue)
    IN  [n \in 1..Len(currentFilters) |->
            Param("filter", Encode(currentFilters[n].type \o <<":">>
                                   \o currentFilters[n].value))]
        \o <<Param("groupBy", Encode(CurrentGroupBy(params)))>>

Effects(pushState, ajax) ==
    [kind |-> "effects", slice |-> NilSlice, strings |-> <<>>,
     pushState |-> pushState, ajax |-> ajax]

\* setActiveFilter: the calls it makes, pushState first
setActiveFilter(params, filterType, filterValue) ==
    LET newUrl == NewParams(params, filterType, filterValue)
    IN  Effects(<<newUrl>>, <<newUrl>>)

FilterTypes == {<<"c", "o", "l", "o", "r">>, Shape, <<"c", "a", "t", "e", "g", "o", "r", "y">>}

\* the values that the sidebar of a type can offer
ValuesOfType(filterType) ==
    CASE filterType = <<"c", "o", "l", "o", "r">> -> {Red, Blue}
      [] filterType = Shape -> {Circle}
      [] OTHER -> {CatA, <<"A", ":", "B">>}

\* the page is opened without filters
StartLocations ==
    {<<>>, <<Param("groupBy", <<"c", "o", "l", "o", "r">>)>>, <<Param("groupBy", <<>>)>>}

NoEffects == Effects(<<>>, <<>>)

InitClient ==
    /\ input \in StartLocations
    /\ heap = [a \in ArrIds |-> <<>>]
    /\ store = NilStore
    /\ err = NoError
    /\ got = NoEffects
    /\ call = [op |-> "load"]

\* a click on a value of the sidebar; pushState moves the window location
SetActiveFilterCall ==
    /\ \E filterType \in FilterTypes : \E filterValue \in ValuesOfType(filterType) :
          LET r == setActiveFilter(input, filterType, filterValue)
          IN  /\ got' = r
              /\ input' = r.pushState[Len(r.pushState)]
              /\ call' = [op |-> "setActiveFilter", filterType |-> filterType,
                          filterValue |-> filterValue, before |-> input]
    /\ UNCHANGED <<heap, store, err>>

NextClient == SetActiveFilterCall

SpecClient == InitClient /\ [][NextClient]_vars

\* the active filters that the client reads from a location
LocationFilters(params) == CurrentFilters(getAll(params, "filter"))

ClickedFilter == [type |-> call.filterType, value |-> call.filterValue]

\* C25: a call of setActiveFilter with a filter that is in the filter list
\* of the URL removes that filter and leaves the other filters and the
\* grouping as they are; a second call with the same arguments, from a URL
\* that had no filter of that type, brings the original filter list back.
C25_ToggleOffRestores ==
    call.op = "setActiveFilter"
    => LET before == LocationFilters(call.before)
           Others(f) == f # ClickedFilter
       IN  /\ (\E n \in 1..Len(before) : before[n] = ClickedFilter)
              => /\ LocationFilters(input) = SelectSeq(before, Others)
                 /\ CurrentGroupBy(input) = CurrentGroupBy(call.before)
           /\ (\A n \in 1..Len(before) : before[n].type # call.filterType)
              => LocationFilters(NewParams(input, call.filterType, call.filterValue))
                   = before

\* the type of a filter parameter as it stands in the URL
TypeOfParam(f) == SubSeq(f, 1, IndexColon(f, 1) - 1)

\* C26: after any sequence of setActiveFilter calls from a URL without filter
\* parameters the URL holds at most one filter parameter per type, and a call
\* leaves the filters of the other types active.
C26_OneFilterPerType ==
    LET raw == getAll(input, "filter")
    IN  /\ \A m, n \in 1..Len(raw) : TypeOfParam(raw[m]) = TypeOfParam(raw[n]) => m = n
        /\ call.op = "setActiveFilter"
           => LET before == LocationFilters(call.before)
                  now == LocationFilters(input)
              IN  \A n \in 1..Len(before) :
                     before[n].type # call.filterType
                     => \E m \in 1..Len(now) : now[m] = before[n]

\* red is replaced by blue while a shape and a category filter stay active
C26_Witness ==
    /\ call.op = "setActiveFilter"
    /\ ClickedFilter = [type |-> <<"c", "o", "l", "o", "r">>, value |-> Blue]
    /\ \E n \in 1..Len(LocationFilters(call.before)) :
          LocationFilters(call.before)[n] = [type |-> <<"c", "o", "l", "o", "r">>, value |-> Red]
    /\ Len(getAll(input, "filter")) = 3
    /\ \E n \in 1..3 : LocationFilters(input)[n] = ClickedFilter

\* C27: every call of setActiveFilter makes one history push and one request,
\* both with the same URL, whose groupBy is the groupBy of the URL before the
\* call, or shape when that URL has none.
C27_GroupByPreserved ==
    call.op = "setActiveFilter"
    => LET g == getAll(call.before, "groupBy")
           expected == IF g = <<>> \/ g[1] = <<>> THEN Shape ELSE g[1]
       IN  /\ Len(got.pushState) = 1
           /\ Len(got.ajax) = 1
           /\ got.pushState[1] = got.ajax[1]
           /\ getAll(got.ajax[1], "groupBy") = <<expected>>

\* a filter is toggled off on a page grouped by color
C27_Witness ==
    /\ call.op = "setActiveFilter"
    /\ getAll(call.before, "groupBy") = <<<<"c", "o", "l", "o", "r">>>>
    /\ \E n \in 1..Len(LocationFilters(call.before)) :
          LocationFilters(call.before)[n] = ClickedFilter
    /\ getAll(got.ajax[1], "filter") = <<>>
    /\ getAll(got.ajax[1], "groupBy") = <<<<"c", "o", "l", "o", "r">>>>

(***************************************************************************)
(* The sidebar.  In the sidebar specification input holds the class lists  *)
(* of the items container and of the header of every category, and got     *)
(* the localStorage.                                                       *)
(***************************************************************************)
MaxToggles == 3   \* toggles of one category that are counted

Categories == {"color", "shape", "category"}

\* classList.toggle(className)
ClassToggle(classes, className) ==
    IF className \in classes THEN classes \ {className} ELSE classes \cup {className}

StorageKey(category) == "category-" \o category \o "-collapsed"

Storage(storage) ==
    [kind |-> "storage", slice |-> NilSlice, strings |-> <<>>, storage |-> storage]

\* variant: the state is read before the classes are toggled
toggleCategoryStale(dom, storage, category) ==
    IF category \in DOMAIN dom
    THEN [dom |-> [dom EXCEPT ![category] =
                      [items |-> ClassToggle(@.items, "collapsed"),
                       header |-> ClassToggle(@.header, "collapsed")]],
          storage |-> MapPut(storage, StorageKey(category),
                             "collapsed" \in dom[category].items)]
    ELSE [dom |-> dom, storage |-> storage]

\* toggleCategory(category); dom has the categories whose elements exist
toggleCategory(dom, storage, category) ==
    IF category \in DOMAIN dom
    THEN LET items == ClassToggle(dom[category].items, "collapsed")
             header == ClassToggle(dom[category].header, "collapsed")
             isCollapsed == "collapsed" \in items
         IN  [dom |-> [dom EXCEPT ![category] = [items |-> items, header |-> header]],
              storage |-> MapPut(storage, StorageKey(category), isCollapsed)]
    ELSE [dom |-> dom, storage |-> storage]

\* the onclick of a category header; target is the element that was clicked
HeaderOnClick(dom, storage, category, target) ==
    IF target = "group-btn"
    THEN [dom |-> dom, storage |-> storage]
    ELSE toggleCategory(dom, storage, category)

InitSidebar ==
    /\ input = [c \in Categories |-> [items |-> {}, header |-> {}]]
    /\ heap = [a \in ArrIds |-> <<>>]
    /\ store = NilStore
    /\ err = NoError
    /\ got = Storage(<<>>)
    /\ call = [op |-> "load", category |-> "", target |-> "",
               before |-> [dom |-> <<>>, storage |-> <<>>],
               toggles |-> [c \in Categories |-> 0]]

Toggled(category, r) ==
    IF category \in Categories /\ r.dom # input
    THEN [call.toggles EXCEPT ![category] = @ + 1]
    ELSE call.toggles

ToggleCategoryCall ==
    /\ \E category \in Categories \cup {"size"} :
          LET r == toggleCategory(input, got.storage, category)
          IN  /\ category \in Categories => call.toggles[category] < MaxToggles
              /\ input' = r.dom
              /\ got' = Storage(r.storage)
              /\ call' = [op |-> "toggleCategory", category |-> category, target |-> "",
                          before |-> [dom |-> input, storage |-> got.storage],
                          toggles |-> Toggled(category, r)]
    /\ UNCHANGED <<heap, store, err>>

HeaderClick ==
    /\ \E category \in Categories : \E target \in {"header", "group-btn"} :
          LET r == HeaderOnClick(input, got.storage, category, target)
          IN  /\ call.toggles[category] < MaxToggles
              /\ input' = r.dom
              /\ got' = Storage(r.storage)
              /\ call' = [op |-> "click", category |-> category, target |-> target,
                          before |-> [dom |-> input, storage |-> got.storage],
                          toggles |-> Toggled(category, r)]
    /\ UNCHANGED <<heap, store, err>>

NextSidebar == ToggleCategoryCall \/ HeaderClick

SpecSidebar == InitSidebar /\ [][NextSidebar]_vars

\* the last call has toggled an existing category
HasToggled ==
    /\ call.category \in Categories
    /\ \/ call.op = "toggleCategory"
       \/ call.op = "click" /\ call.target = "header"

\* C28: after a toggle of an existing category the persisted value says
\* whether the items container is collapsed, the values persisted from the
\* expanded start are true, false, true, ..., the items container and the
\* header are collapsed together, and a click on a group-by button inside
\* the header toggles nothing.
C28_PersistedMatchesCollapsed ==
    /\ \A c \in Categories :
          ("collapsed" \in input[c].items) <=> ("collapsed" \in input[c].header)
    /\ HasToggled
       => /\ got.storage[StorageKey(call.category)]
               = ("collapsed" \in input[call.category].items)
          /\ got.storage[StorageKey(call.category)]
               = (call.toggles[call.category] % 2 = 1)
    /\ (call.op = "click" /\ call.target = "group-btn")
       => (input = call.before.dom /\ got.storage = call.before.storage)

\* the second toggle of color persists false
C28_Witness ==
    /\ HasToggled
    /\ call.category = "color"
    /\ call.toggles["color"] = 2
    /\ got.storage[StorageKey("color")] = FALSE
    /\ input["color"].items = {}

\* the member counts of the groups of the page that a handler returned
PageGroupSizes ==
    IF AnsweredByItemsHandler
    THEN {Len(PageGroups[n].Members) : n \in 1..Len(PageGroups)}
    ELSE {Len(MapContents(heap, got.GroupedItems)[k]) : k \in DOMAIN got.GroupedItems}

\* C29 as stated: every group that groupItems returns has a member, whatever
\* the filtered sequence and the groupBy.
C29_NoEmptyGroupAnyGroupBy ==
    (AnsweredByItemsHandler \/ AnsweredByStoreHandler) => 0 \notin PageGroupSizes

\* C29: for a recognized groupBy (or the default) every group that groupItems
\* returns has a member, the empty filtered sequence giving no group; for an
\* unrecognized groupBy the one group has as many members as there are
\* filtered records, none when the filtered sequence is empty.
C29_NoEmptyGroup ==
    (AnsweredByItemsHandler \/ AnsweredByStoreHandler)
    => IF call.req.groupBy \in KnownKeys \cup {""}
       THEN 0 \notin PageGroupSizes
       ELSE PageGroupSizes = {got.slice.len}

\* the four-record seed, color = red, grouped by shape by the store-backed
\* handler: circle holds record 1 and square record 3
C29_Witness ==
    /\ AnsweredByStoreHandler
    /\ StoreItems = TestItems
    /\ call.req.groupBy = "shape"
    /\ got.ActiveFilters = MakeMap([k \in {"color"} |-> Red])
    /\ DOMAIN got.GroupedItems = {Circle, Square}
    /\ PageGroupSizes = {1}

\* C30: for a recognized key k and a non-empty value v the records that the
\* handler over the global items filters for filterBy=k and filterValue=v are
\* the records of ItemStore.Filter({k: v}) over the same sequence, in the
\* same order.
C30_InlineFilterEqualsStoreFilter ==
    ( /\ AnsweredByItemsHandler
      /\ Str(call.req.filterBy) \in KnownKeys
      /\ call.req.filterValue # <<>> )
    => LET live == Live(input, store, NoValue)
           k == Str(call.req.filterBy)
           r == Filter(Collect(heap, live), live, store,
                       MakeMap([x \in {k} |-> call.req.filterValue]), <<k>>)
       IN  /\ StoreItems = InputItems
           /\ GotItems = SliceItems(r.heap, r.slice)

\* the four-record seed, filterBy=color and filterValue=red answered by the
\* handler over the global items: records 1 and 3
C30_Witness ==
    /\ AnsweredByItemsHandler
    /\ InputItems = TestItems
    /\ call.req.filterBy = <<"c", "o", "l", "o", "r">>
    /\ call.req.filterValue = Red
    /\ Len(GotItems) = 2
    /\ GotItems[1].ID = 1 /\ GotItems[2].ID = 3

====
